---- MODULE Spec2Model ----
(***************************************************************************)
(* State-machine model of js/main.js: the page script of the portfolio     *)
(* site.  The script registers independent DOM listeners; every listener   *)
(* (or every group of listeners of one event) is one action.  The state    *)
(* is the part of the DOM, of local storage and of the ThemeManager        *)
(* object that the listeners read and write.                               *)
(***************************************************************************)
EXTENDS Integers, Sequences, FiniteSets, TLC

VARIABLES
    \* the document (fixed once the page is parsed)
    dom,              \* elements in document order: [kind, id, top]
    anchors,          \* the a[href^="#"] elements: [href, nav]
    hasToggle,        \* #themeToggle exists
    hasIcon,          \* #themeIcon exists
    hasScrollTop,     \* .scroll-top exists
    \* ThemeManager, local storage, root element, toggle control
    loaded,           \* DOMContentLoaded has been dispatched
    storage,          \* localStorage.getItem('theme')
    currentTheme,     \* this.currentTheme
    dataTheme,        \* documentElement data-theme attribute
    iconClass,        \* themeIcon.className
    ariaLabel,        \* themeToggle aria-label
    transform,        \* themeToggle.style.transform
    timers,           \* pending 300ms revert timers
    themeBound,       \* init() reached its addEventListener calls
    sysDark,          \* matchMedia('(prefers-color-scheme: dark)').matches
    \* scrolling and navigation
    scrollY,          \* window.scrollY / window.pageYOffset
    navbarBg,         \* navbar.style.background
    scrollTopDisplay, \* .scroll-top style.display
    active,           \* per anchor: classList contains 'active'
    navOpen,          \* .nav-links classList contains 'active'
    scrollTarget,     \* id of the element last passed to scrollIntoView
    \* reveal animations
    observed,         \* elements handed to observer.observe
    fadeIn,           \* elements whose classList contains 'fade-in'
    cardTimers,       \* pending stagger timers: [elem, delay, seq]
    cardStyled,       \* cards whose opacity/transform were set by a timer
    \* contact form
    formName,
    formEmail,
    formMessage,
    alerts,           \* alert() messages shown by the last submit
    defaultPrevented, \* the last submit event had preventDefault called
    resets,           \* the last submit called form.reset()
    requests,         \* network requests issued so far
    \* history of the run (written, never read, by the handlers)
    lastEvent,        \* [type, idx] of the event dispatched last
    toggled,          \* toggleTheme has run at least once
    chosen,           \* the theme the latest toggleTheme selected
    before,           \* theme snapshots taken before the latest toggles
    initialStorage,   \* the 'theme' entry when the page was opened
    everHit,          \* elements some callback reported as intersecting
    lastHit,          \* elements the last callback reported as intersecting
    lastMiss          \* elements the last callback reported as not intersecting

domVars    == <<dom, anchors, hasToggle, hasIcon, hasScrollTop>>
themeVars  == <<storage, currentTheme, dataTheme, iconClass, ariaLabel,
                themeBound>>
affordVars == <<transform, timers>>
navVars    == <<active, navOpen, scrollTarget>>
scrollVars == <<scrollY, navbarBg, scrollTopDisplay>>
revealVars == <<observed, fadeIn, everHit, lastHit, lastMiss>>
cardVars   == <<cardTimers, cardStyled>>
formVars   == <<formName, formEmail, formMessage, alerts, defaultPrevented,
                resets, requests>>
histVars   == <<toggled, chosen, before, initialStorage>>
vars == <<domVars, loaded, themeVars, affordVars, sysDark, navVars,
          scrollVars, revealVars, cardVars, formVars, histVars, lastEvent>>

(***************************************************************************)
(* Bounds of the model.                                                    *)
(***************************************************************************)
MaxSections == 2
MaxAnchors == 2
MaxElems == 2
MaxTimers == 2

(***************************************************************************)
(* JavaScript values.                                                      *)
(***************************************************************************)
NULL == "<null>"

\* !v for a value that is null or a string
Falsy(v) == v = NULL \/ v = ""

BoundedSeq(S, n) == UNION {[1..k -> S] : k \in 0..n}

Event(t, i) == [type |-> t, idx |-> i]

(***************************************************************************)
(* The document: which selectors an element matches.                       *)
(***************************************************************************)
IsSection(e) == e.kind \in {"section", "section.hero"}

IsHero(e) == e.kind \in {"section.hero", "div.hero"}

IsSkillCard(e) == e.kind = "skill-card"

IsProjectCard(e) == e.kind = "project-card"

\* document.querySelectorAll('section, .skill-card, .project-card')
elementsToAnimate ==
    {i \in DOMAIN dom : IsSection(dom[i]) \/ IsSkillCard(dom[i]) \/ IsProjectCard(dom[i])}

\* document.querySelector('.hero'): the first match, as a set of 0 or 1 elements
hero ==
    {i \in DOMAIN dom : IsHero(dom[i]) /\ \A j \in 1..(i - 1) : ~IsHero(dom[j])}

(***************************************************************************)
(* ThemeManager.                                                           *)
(***************************************************************************)
\* constructor: localStorage.getItem('theme') || 'light'
InitialTheme == IF Falsy(storage) THEN "light" ELSE storage

\* toggleTheme: this.currentTheme === 'light' ? 'dark' : 'light'
NewTheme == IF currentTheme = "light" THEN "dark" ELSE "light"

\* variant: the change listener without its guard
NoStoredTheme_Always == TRUE

\* the change listener's guard: !localStorage.getItem('theme')
NoStoredTheme == Falsy(storage)

\* the change listener's argument: e.matches ? 'dark' : 'light'
SystemTheme(matches) == IF matches THEN "dark" ELSE "light"

IconFor(theme) == IF theme = "dark" THEN "fas fa-sun" ELSE "fas fa-moon"

LabelFor(theme) ==
    IF theme = "dark" THEN "Switch to light mode" ELSE "Switch to dark mode"

\* variant: setTheme without its localStorage.setItem
setTheme_NoSave(theme) ==
    /\ currentTheme' = theme
    /\ dataTheme' = theme
    /\ iconClass' = IF hasIcon THEN IconFor(theme) ELSE iconClass
    /\ ariaLabel' = IF hasIcon /\ hasToggle THEN LabelFor(theme) ELSE ariaLabel
    /\ storage' = storage

\* setTheme stops at the first statement that dereferences a missing element:
\* themeIcon.className throws when the icon is absent, themeToggle.setAttribute
\* when the toggle is absent; the statements before the throw have taken effect.
setTheme(theme) ==
    /\ currentTheme' = theme
    /\ dataTheme' = theme
    /\ iconClass' = IF hasIcon THEN IconFor(theme) ELSE iconClass
    /\ ariaLabel' = IF hasIcon /\ hasToggle THEN LabelFor(theme) ELSE ariaLabel
    /\ storage' = IF hasIcon /\ hasToggle THEN theme ELSE storage

\* new ThemeManager(): constructor, then init(); the listeners of init() are
\* registered only when setTheme returned normally.
ThemeManager ==
    /\ setTheme(InitialTheme)
    /\ themeBound' = (hasIcon /\ hasToggle)

\* the first DOMContentLoaded listener ended in an uncaught TypeError: setTheme
\* touched a missing element, so init() never reached its addEventListener calls
ThemeManagerThrew == loaded /\ ~themeBound

Snapshot == [cur |-> currentTheme, attr |-> dataTheme, stored |-> storage]

\* click on #themeToggle
toggleTheme ==
    /\ themeBound
    /\ timers < MaxTimers
    /\ setTheme(NewTheme)
    /\ transform' = "rotate(360deg)"
    /\ timers' = timers + 1
    /\ toggled' = TRUE
    /\ chosen' = NewTheme
    /\ UNCHANGED initialStorage
    /\ before' = IF Len(before) = 2 THEN <<before[2], Snapshot>>
                 ELSE Append(before, Snapshot)
    /\ lastEvent' = Event("toggle", 0)
    /\ UNCHANGED <<domVars, loaded, themeBound, sysDark, navVars, scrollVars,
                   revealVars, cardVars, formVars>>

\* variant: the callback leaves the transform as it is
RevertTimer_NoReset ==
    /\ timers > 0
    /\ timers' = timers - 1
    /\ transform' = transform
    /\ lastEvent' = Event("timer", 0)
    /\ UNCHANGED <<domVars, loaded, themeVars, sysDark, navVars, scrollVars,
                   revealVars, cardVars, formVars, histVars>>

\* the setTimeout callback of toggleTheme
RevertTimer ==
    /\ timers > 0
    /\ timers' = timers - 1
    /\ transform' = ""
    /\ lastEvent' = Event("timer", 0)
    /\ UNCHANGED <<domVars, loaded, themeVars, sysDark, navVars, scrollVars,
                   revealVars, cardVars, formVars, histVars>>

\* the system colour scheme changes; the 'change' listener exists once init()
\* has registered it
onSystemThemeChange ==
    /\ sysDark' = ~sysDark
    /\ IF themeBound /\ NoStoredTheme
       THEN setTheme(SystemTheme(sysDark'))
       ELSE UNCHANGED <<storage, currentTheme, dataTheme, iconClass, ariaLabel>>
    /\ before' = <<>>
    /\ lastEvent' = Event("syschange", IF sysDark' THEN 1 ELSE 0)
    /\ UNCHANGED <<domVars, loaded, themeBound, affordVars, navVars, scrollVars,
                   revealVars, cardVars, formVars, toggled, chosen,
                   initialStorage>>

(***************************************************************************)
(* DOMContentLoaded: the three listeners, in registration order.           *)
(***************************************************************************)
SkillDelay == 100
ProjectDelay == 150

SkillIndex(i) == Cardinality({j \in 1..(i - 1) : IsSkillCard(dom[j])})

ProjectIndex(i) == Cardinality({j \in 1..(i - 1) : IsProjectCard(dom[j])})

\* the timers the third listener starts; seq is the order of the setTimeout calls
StaggerTimers ==
    {[elem |-> i, delay |-> SkillIndex(i) * SkillDelay, seq |-> SkillIndex(i)] :
        i \in {j \in DOMAIN dom : IsSkillCard(dom[j])}}
    \cup
    {[elem |-> i, delay |-> ProjectIndex(i) * ProjectDelay,
      seq |-> Len(dom) + ProjectIndex(i)] :
        i \in {j \in DOMAIN dom : IsProjectCard(dom[j])}}

DOMContentLoaded ==
    /\ ~loaded
    /\ loaded' = TRUE
    /\ ThemeManager
    /\ observed' = elementsToAnimate
    /\ fadeIn' = fadeIn \cup hero
    /\ cardTimers' = StaggerTimers
    /\ before' = <<>>
    /\ lastEvent' = Event("load", 0)
    /\ UNCHANGED <<domVars, affordVars, sysDark, navVars, scrollVars, everHit,
                   lastHit, lastMiss, cardStyled, formVars, toggled, chosen,
                   initialStorage>>

\* timers fire in order of delay, equal delays in order of registration
FiresBefore(t, u) ==
    t.delay < u.delay \/ (t.delay = u.delay /\ t.seq < u.seq)

StaggerTimer ==
    /\ \E t \in cardTimers :
        /\ \A u \in cardTimers \ {t} : FiresBefore(t, u)
        /\ cardTimers' = cardTimers \ {t}
        /\ cardStyled' = cardStyled \cup {t.elem}
        /\ lastEvent' = Event("stagger", t.elem)
    /\ UNCHANGED <<domVars, loaded, themeVars, affordVars, sysDark, navVars,
                   scrollVars, revealVars, formVars, histVars>>

(***************************************************************************)
(* The scroll listeners: navbar background, active link, scroll-top button. *)
(***************************************************************************)
NavbarThreshold == 50
ActiveOffset == 200
ScrollTopThreshold == 300

\* variant: the threshold compared with >=
NavbarBackground_AtThreshold(y, theme) ==
    IF y >= NavbarThreshold
    THEN (IF theme = "dark" THEN "rgba(17, 24, 39, 0.98)"
          ELSE "rgba(255, 255, 255, 0.98)")
    ELSE (IF theme = "dark" THEN "rgba(17, 24, 39, 0.95)"
          ELSE "rgba(255, 255, 255, 0.95)")

\* navbar.style.background
NavbarBackground(y, theme) ==
    IF y > NavbarThreshold
    THEN (IF theme = "dark" THEN "rgba(17, 24, 39, 0.98)"
          ELSE "rgba(255, 255, 255, 0.98)")
    ELSE (IF theme = "dark" THEN "rgba(17, 24, 39, 0.95)"
          ELSE "rgba(255, 255, 255, 0.95)")

\* the test of the sections.forEach body
SectionReached(y, sectionTop) == y >= sectionTop - ActiveOffset

\* sections.forEach: `current` after the elements from i on, in document order
RECURSIVE ScanSections(_, _, _)
ScanSections(i, y, current) ==
    IF i > Len(dom) THEN current
    ELSE ScanSections(i + 1, y,
            IF IsSection(dom[i]) /\ SectionReached(y, dom[i].top)
            THEN dom[i].id ELSE current)

\* variant: the scan stops at the first section reached
CurrentSection_First(y) ==
    LET reached == {i \in DOMAIN dom :
                        IsSection(dom[i]) /\ SectionReached(y, dom[i].top)}
    IN  IF reached = {} THEN ""
        ELSE dom[CHOOSE i \in reached : \A j \in reached : i <= j].id

CurrentSection(y) == ScanSections(1, y, "")

\* navLinks.forEach: remove 'active', add it back when the href is `#${current}`
ActiveAfterScroll(href, current) == href = "#" \o current

ScrollTopDisplay(y) == IF y > ScrollTopThreshold THEN "block" ELSE "none"

ScrollOffsets == {0, 50, 51, 301}

Scroll ==
    /\ \E y \in ScrollOffsets :
        /\ scrollY' = y
        /\ navbarBg' = NavbarBackground(y, dataTheme)
        /\ active' = [i \in DOMAIN anchors |->
                        IF anchors[i].nav
                        THEN ActiveAfterScroll(anchors[i].href, CurrentSection(y))
                        ELSE active[i]]
        /\ scrollTopDisplay' = IF hasScrollTop THEN ScrollTopDisplay(y)
                               ELSE scrollTopDisplay
        /\ lastEvent' = Event("scroll", y)
    /\ UNCHANGED <<domVars, loaded, themeVars, affordVars, sysDark, navOpen,
                   scrollTarget, revealVars, cardVars, formVars, histVars>>

(***************************************************************************)
(* Clicks: in-page anchors, nav links, hamburger.                          *)
(***************************************************************************)
\* document.querySelector(href) returns an element: '#' alone is not a valid
\* selector (querySelector throws and the listener ends there), '#id' matches
\* when an element carries the id
TargetResolves(href) ==
    href # "#" /\ \E i \in DOMAIN dom : href = "#" \o dom[i].id

TargetId(href) == (CHOOSE i \in DOMAIN dom : href = "#" \o dom[i].id)

\* whether an anchor carries 'active' after the first listener: inside
\* `if (target)` every .nav-links a loses the class, then the clicked anchor
\* gains it
\* variant: the class update placed outside `if (target)`
ActiveAfterClick_NoGuard(isClicked, isNav, resolves, had) ==
    IF isClicked THEN TRUE
    ELSE IF isNav THEN FALSE
    ELSE had

ActiveAfterClick(isClicked, isNav, resolves, had) ==
    IF ~resolves THEN had
    ELSE IF isClicked THEN TRUE
    ELSE IF isNav THEN FALSE
    ELSE had

\* the element scrollIntoView was last called on
ScrollTargetAfterClick(href, old) ==
    IF TargetResolves(href) THEN dom[TargetId(href)].id ELSE old

\* the listener of every a[href^="#"], then the listener of every .nav-links a
Click ==
    /\ \E a \in DOMAIN anchors :
        /\ scrollTarget' = ScrollTargetAfterClick(anchors[a].href, scrollTarget)
        /\ active' = [i \in DOMAIN anchors |->
                        ActiveAfterClick(i = a, anchors[i].nav,
                                         TargetResolves(anchors[a].href),
                                         active[i])]
        /\ navOpen' = IF anchors[a].nav THEN FALSE ELSE navOpen
        /\ lastEvent' = Event("click", a)
    /\ UNCHANGED <<domVars, loaded, themeVars, affordVars, sysDark, scrollVars,
                   revealVars, cardVars, formVars, histVars>>

\* click on .hamburger
Hamburger ==
    /\ navOpen' = ~navOpen
    /\ lastEvent' = Event("hamburger", 0)
    /\ UNCHANGED <<domVars, loaded, themeVars, affordVars, sysDark, active,
                   scrollTarget, scrollVars, revealVars, cardVars, formVars,
                   histVars>>

(***************************************************************************)
(* The IntersectionObserver callback.                                      *)
(***************************************************************************)
\* variant: the class follows the entry (classList.toggle with a force flag)
AfterEntry_Mirror(had, isIntersecting) == isIntersecting

\* entries.forEach body: whether the target carries 'fade-in' afterwards
AfterEntry(had, isIntersecting) == IF isIntersecting THEN TRUE ELSE had

Intersect ==
    /\ \E entries \in (SUBSET observed) \ {{}} :
       \E hit \in SUBSET entries :
        /\ fadeIn' = {e \in DOMAIN dom :
                        IF e \in entries THEN AfterEntry(e \in fadeIn, e \in hit)
                        ELSE e \in fadeIn}
        /\ everHit' = everHit \cup hit
        /\ lastHit' = hit
        /\ lastMiss' = entries \ hit
        /\ lastEvent' = Event("intersect", 0)
    /\ UNCHANGED <<domVars, loaded, themeVars, affordVars, sysDark, navVars,
                   scrollVars, observed, cardVars, formVars, histVars>>

(***************************************************************************)
(* The contact form.                                                       *)
(***************************************************************************)
ValidationMessage == "Please fill in all fields."

SuccessMessage == "Thank you for your message! I'll get back to you soon."

FieldValues == {"", " ", "a"}

\* the user edits one field
Input ==
    /\ \E v \in FieldValues :
        \/ formName' = v /\ UNCHANGED <<formEmail, formMessage>>
        \/ formEmail' = v /\ UNCHANGED <<formName, formMessage>>
        \/ formMessage' = v /\ UNCHANGED <<formName, formEmail>>
    /\ lastEvent' = Event("input", 0)
    /\ UNCHANGED <<domVars, loaded, themeVars, affordVars, sysDark, navVars,
                   scrollVars, revealVars, cardVars, alerts, defaultPrevented,
                   resets, requests, histVars>>

\* variant: the email test left out
Invalid_NoEmail(name, email, message) == Falsy(name) \/ Falsy(message)

\* variant: fields trimmed before the test
Invalid_Trimmed(name, email, message) ==
    \/ name \in {NULL, "", " "}
    \/ email \in {NULL, "", " "}
    \/ message \in {NULL, "", " "}

\* if (!name || !email || !message)
Invalid(name, email, message) == Falsy(name) \/ Falsy(email) \/ Falsy(message)

Submit ==
    /\ defaultPrevented' = TRUE
    /\ IF Invalid(formName, formEmail, formMessage)
       THEN /\ alerts' = <<ValidationMessage>>
            /\ resets' = FALSE
            /\ UNCHANGED <<formName, formEmail, formMessage>>
       ELSE /\ alerts' = <<SuccessMessage>>
            /\ resets' = TRUE
            /\ formName' = ""
            /\ formEmail' = ""
            /\ formMessage' = ""
    /\ requests' = requests
    /\ lastEvent' = Event("submit", 0)
    /\ UNCHANGED <<domVars, loaded, themeVars, affordVars, sysDark, navVars,
                   scrollVars, revealVars, cardVars, histVars>>

(***************************************************************************)
(* Initial states: the script has run, DOMContentLoaded is still to come.  *)
(***************************************************************************)
SectionIds == {"home", "about"}
SectionTops == {0, 250}
Hrefs == {"#home", "#missing", "#"}
StoredValues == {NULL, "", "light", "dark", "blue"}

Element(k, id, top) == [kind |-> k, id |-> id, top |-> top]

Anchor(h, n) == [href |-> h, nav |-> n]

SectionElements == {Element("section", id, top) : id \in SectionIds, top \in SectionTops}

AnchorElements == {Anchor(h, n) : h \in Hrefs, n \in BOOLEAN}

RevealElements ==
    {Element(k, "home", 0) :
        k \in {"section", "section.hero", "div.hero", "skill-card", "project-card"}}

\* a page with two sections and a nav link to each
PlainDom == <<Element("section.hero", "home", 0), Element("section", "about", 250)>>

PlainAnchors == <<Anchor("#home", TRUE), Anchor("#about", TRUE)>>

InitState ==
    /\ loaded = FALSE
    /\ currentTheme = NULL
    /\ dataTheme = NULL
    /\ iconClass = "fas fa-moon"
    /\ ariaLabel = NULL
    /\ transform = ""
    /\ timers = 0
    /\ themeBound = FALSE
    /\ scrollY = 0
    /\ navbarBg = ""
    /\ scrollTopDisplay = ""
    /\ active = [i \in DOMAIN anchors |-> FALSE]
    /\ navOpen = FALSE
    /\ scrollTarget = NULL
    /\ observed = {}
    /\ fadeIn = {}
    /\ cardTimers = {}
    /\ cardStyled = {}
    /\ formName = ""
    /\ formEmail = ""
    /\ formMessage = ""
    /\ alerts = <<>>
    /\ defaultPrevented = FALSE
    /\ resets = FALSE
    /\ requests = 0
    /\ lastEvent = Event("script", 0)
    /\ toggled = FALSE
    /\ chosen = NULL
    /\ before = <<>>
    /\ initialStorage = storage
    /\ everHit = {}
    /\ lastHit = {}
    /\ lastMiss = {}

InitTheme ==
    /\ dom = PlainDom
    /\ anchors = PlainAnchors
    /\ hasToggle = TRUE
    /\ hasIcon = TRUE
    /\ hasScrollTop \in BOOLEAN
    /\ storage \in StoredValues
    /\ sysDark \in BOOLEAN
    /\ InitState

InitNav ==
    /\ dom \in BoundedSeq(SectionElements, MaxSections)
    /\ anchors \in BoundedSeq(AnchorElements, MaxAnchors)
    /\ hasToggle = TRUE
    /\ hasIcon = TRUE
    /\ hasScrollTop = FALSE
    /\ storage = NULL
    /\ sysDark = FALSE
    /\ InitState

InitReveal ==
    /\ dom \in BoundedSeq(RevealElements, MaxElems)
    /\ anchors = <<>>
    /\ hasToggle = TRUE
    /\ hasIcon = TRUE
    /\ hasScrollTop = FALSE
    /\ storage = NULL
    /\ sysDark = FALSE
    /\ InitState

InitForm ==
    /\ dom = PlainDom
    /\ anchors = PlainAnchors
    /\ hasToggle = TRUE
    /\ hasIcon = TRUE
    /\ hasScrollTop = FALSE
    /\ storage = NULL
    /\ sysDark = FALSE
    /\ InitState

\* pages with or without the toggle control and its icon
InitOptional ==
    /\ dom \in BoundedSeq(RevealElements, MaxElems)
    /\ anchors = <<>>
    /\ hasToggle \in BOOLEAN
    /\ hasIcon \in BOOLEAN
    /\ hasScrollTop = FALSE
    /\ storage \in {NULL, "dark"}
    /\ sysDark = FALSE
    /\ InitState

(***************************************************************************)
(* Specifications.  The listeners of one specification are those that read *)
(* or write the state it explores; the others leave that state unchanged.  *)
(***************************************************************************)
NextTheme ==
    \/ DOMContentLoaded
    \/ toggleTheme
    \/ RevertTimer
    \/ onSystemThemeChange
    \/ Scroll
    \/ Click
    \/ Hamburger

NextNav ==
    \/ Scroll
    \/ Click
    \/ Hamburger

NextReveal ==
    \/ DOMContentLoaded
    \/ Intersect
    \/ StaggerTimer

NextForm ==
    \/ DOMContentLoaded
    \/ Input
    \/ Submit

NextOptional ==
    \/ DOMContentLoaded
    \/ toggleTheme
    \/ RevertTimer
    \/ onSystemThemeChange
    \/ Intersect
    \/ StaggerTimer

\* the toggle control's affordance: toggles, their timers, and the events
\* that may fall between them
NextAffordance ==
    \/ DOMContentLoaded
    \/ toggleTheme
    \/ RevertTimer
    \/ onSystemThemeChange
    \/ Hamburger

SpecTheme == InitTheme /\ [][NextTheme]_vars

SpecNav == InitNav /\ [][NextNav]_vars

SpecReveal == InitReveal /\ [][NextReveal]_vars

SpecForm == InitForm /\ [][NextForm]_vars

SpecOptional == InitOptional /\ [][NextOptional]_vars

\* a pending setTimeout callback is run by the event loop after its delay
SpecAffordance ==
    InitTheme /\ [][NextAffordance]_vars /\ WF_vars(RevertTimer)

(***************************************************************************)
(* Properties.                                                             *)
(***************************************************************************)
ThemeValues == {"light", "dark"}

NavLinks == {a \in DOMAIN anchors : anchors[a].nav}

Reached(i, y) == IsSection(dom[i]) /\ dom[i].top - 200 <= y

\* the last section in document order that the offset has reached (0 or 1)
LastReached(y) ==
    {i \in DOMAIN dom : Reached(i, y) /\ \A j \in DOMAIN dom : j > i => ~Reached(j, y)}

Targets(a, i) == anchors[a].href = "#" \o dom[i].id

Unresolved(href) == \A i \in DOMAIN dom : href # "#" \o dom[i].id

\* C1 as stated: after a scroll event exactly one navigation link is active,
\* and it targets the last section in document order with top - 200 <= offset.
C1_ExactlyOneActive ==
    lastEvent.type = "scroll" =>
        \E a \in NavLinks :
            /\ active[a]
            /\ \A b \in NavLinks : active[b] => b = a
            /\ \E i \in LastReached(scrollY) : Targets(a, i)

\* C1 amended: after a scroll event a navigation link is active exactly when
\* its href is '#' followed by the id of the last section in document order
\* with top - 200 <= offset, the id being empty when no section qualifies; so
\* at most one link is active when the links' hrefs are distinct.
C1_ActiveIffLastReached ==
    lastEvent.type = "scroll" =>
        /\ \A a \in NavLinks :
            active[a] <=>
                IF LastReached(scrollY) = {} THEN anchors[a].href = "#"
                ELSE \E i \in LastReached(scrollY) : Targets(a, i)
        /\ (\A a, b \in NavLinks : a # b => anchors[a].href # anchors[b].href)
            => Cardinality({a \in NavLinks : active[a]}) <= 1

\* two sections with different ids are reached, the link to the later one is
\* active and a link to the earlier one is not
C1_Witness ==
    /\ lastEvent.type = "scroll"
    /\ \E i, j \in DOMAIN dom :
        /\ i < j
        /\ Reached(i, scrollY)
        /\ j \in LastReached(scrollY)
        /\ dom[i].id # dom[j].id
        /\ \E a \in NavLinks : active[a] /\ Targets(a, j)

\* C2 as stated: with no stored theme and a dark system preference,
\* initialization sets data-theme to 'dark' and leaves storage without an entry.
C2_SystemPreferenceAtInit ==
    (lastEvent.type = "load" /\ initialStorage = NULL /\ sysDark) =>
        (dataTheme = "dark" /\ storage = NULL)

\* C3 as stated: once initialized, the theme preference, the data-theme
\* attribute and the stored value are each 'light' or 'dark', whatever value
\* storage held before.
C3_ThemeIsLightOrDark ==
    loaded =>
        /\ currentTheme \in ThemeValues
        /\ dataTheme \in ThemeValues
        /\ storage \in ThemeValues

\* C4 as stated: two consecutive toggleTheme calls restore the theme
\* preference, the data-theme attribute and the stored value, and one call
\* switches to the other of the two values.
C4_ToggleTwiceRestores ==
    /\ Len(before) = 2 => Snapshot = before[1]
    /\ Len(before) >= 1 =>
        /\ currentTheme # before[Len(before)].cur
        /\ {currentTheme, before[Len(before)].cur} = ThemeValues

\* C5: once the theme has been toggled, the theme preference, the data-theme
\* attribute and the stored value stay at the value the latest toggle chose,
\* through any system colour-scheme notifications, scrolls and clicks.
C5_ExplicitChoiceKept ==
    toggled =>
        /\ currentTheme = chosen
        /\ dataTheme = chosen
        /\ storage = chosen

\* toggled to light, then the system turned dark: the theme is still light
C5_Witness ==
    /\ toggled
    /\ lastEvent = Event("syschange", 1)
    /\ chosen = "light"
    /\ dataTheme = "light"
    /\ storage = "light"

\* C6 as stated: a system colour-scheme notification is applied when the user
\* has made no explicit choice (no toggle, and no entry in storage when the
\* page was opened), and changes nothing otherwise.
C6_SystemChangeIffNoChoice ==
    [][(lastEvent'.type = "syschange" /\ themeBound) =>
        IF toggled \/ initialStorage # NULL
        THEN /\ currentTheme' = currentTheme
             /\ dataTheme' = dataTheme
             /\ storage' = storage
        ELSE /\ currentTheme' = SystemTheme(sysDark')
             /\ dataTheme' = SystemTheme(sysDark')]_vars

\* C7 as stated: only toggleTheme changes the stored value (initialization
\* and system notifications neither create nor change it), and the entry is
\* never removed.
C7_OnlyToggleWritesStorage ==
    [][/\ storage' # storage => lastEvent'.type = "toggle"
       /\ storage # NULL => storage' # NULL]_vars

\* C8: an element some callback reported as intersecting carries 'fade-in'
\* ever after; 'fade-in' is never removed; and a callback adds it only to
\* elements it reports as intersecting.
C8_RevealIsOneWay ==
    /\ [](everHit \subseteq fadeIn)
    /\ [][fadeIn \subseteq fadeIn']_vars
    /\ [][lastEvent'.type = "intersect" => (fadeIn' \ fadeIn) \subseteq lastHit']_vars

\* an element revealed earlier has just been reported as not intersecting
C8_Witness ==
    /\ lastEvent.type = "intersect"
    /\ \E e \in lastMiss : e \in everHit /\ e \in fadeIn

\* C9: a submit with an empty name, email or message shows exactly the
\* validation message, resets nothing and issues no network request.
C9_InvalidSubmitRejected ==
    [][(lastEvent'.type = "submit"
            /\ (formName = "" \/ formEmail = "" \/ formMessage = "")) =>
        /\ alerts' = <<"Please fill in all fields.">>
        /\ ~resets'
        /\ <<formName', formEmail', formMessage'>> = <<formName, formEmail, formMessage>>
        /\ requests' = requests]_vars

\* only the email is empty: validation message, the other fields are kept
C9_Witness ==
    /\ lastEvent.type = "submit"
    /\ formName = "a"
    /\ formEmail = ""
    /\ formMessage = "a"
    /\ alerts = <<"Please fill in all fields.">>
    /\ ~resets

\* C10 as stated: a click on an in-page anchor whose target does not resolve
\* starts no scroll and changes no 'active' class, on the links or on the
\* nav-links container.
C10_UnresolvedClickChangesNothing ==
    [][(lastEvent'.type = "click" /\ Unresolved(anchors[lastEvent'.idx].href)) =>
        /\ scrollTarget' = scrollTarget
        /\ active' = active
        /\ navOpen' = navOpen]_vars

\* C10 amended: such a click starts no scroll and changes no anchor's
\* 'active' class; the nav-links container loses 'active' (the mobile menu
\* closes) when the anchor is a navigation link and is untouched otherwise.
C10_UnresolvedClickOnlyClosesMenu ==
    [][(lastEvent'.type = "click" /\ Unresolved(anchors[lastEvent'.idx].href)) =>
        /\ scrollTarget' = scrollTarget
        /\ active' = active
        /\ navOpen' = (navOpen /\ ~anchors[lastEvent'.idx].nav)]_vars

\* after an earlier click that resolved, a navigation link with an unresolved
\* target was clicked: the earlier link is still active, the scroll target kept
C10_Witness ==
    /\ lastEvent.type = "click"
    /\ Unresolved(anchors[lastEvent.idx].href)
    /\ anchors[lastEvent.idx].nav
    /\ ~active[lastEvent.idx]
    /\ \E i \in DOMAIN anchors : active[i]
    /\ scrollTarget # NULL
    /\ ~navOpen

Cards == {i \in DOMAIN dom : IsSkillCard(dom[i]) \/ IsProjectCard(dom[i])}

\* the second and third DOMContentLoaded listeners have taken effect: every
\* section and card is observed, the hero carries 'fade-in', every card has a
\* stagger timer pending or already fired
OtherListenersRan ==
    /\ observed = {i \in DOMAIN dom : dom[i].kind \notin {"div.hero"}}
    /\ \A i \in DOMAIN dom :
        (dom[i].kind \in {"section.hero", "div.hero"}
            /\ \A j \in 1..(i - 1) : dom[j].kind \notin {"section.hero", "div.hero"})
        => i \in fadeIn
    /\ Cards = {t.elem : t \in cardTimers} \cup cardStyled

\* C11 as stated: whether or not the toggle control and its icon exist, the
\* theme manager's initialization ends without an error, and the observer
\* registration, hero fade-in and card staggering have taken effect.
C11_MissingToggleIsHarmless ==
    loaded => (~ThemeManagerThrew /\ OtherListenersRan)

\* the part of C11 the code keeps: the other listeners run all the same
C11_OtherListenersStillRun ==
    loaded => OtherListenersRan

\* C12: right after a scroll event the navbar background is the colour for
\* (offset > 50, data-theme): dark theme 0.98 above the threshold and 0.95 at
\* or below it, any other theme the white pair; offset 50 is not past it.
C12_NavbarBackgroundTable ==
    lastEvent.type = "scroll" =>
        navbarBg =
            CASE scrollY > 50 /\ dataTheme = "dark" -> "rgba(17, 24, 39, 0.98)"
              [] scrollY <= 50 /\ dataTheme = "dark" -> "rgba(17, 24, 39, 0.95)"
              [] scrollY > 50 /\ dataTheme # "dark" -> "rgba(255, 255, 255, 0.98)"
              [] scrollY <= 50 /\ dataTheme # "dark" -> "rgba(255, 255, 255, 0.95)"

\* dark theme, scrolled to exactly 50: the lower opacity
C12_Witness ==
    /\ lastEvent = Event("scroll", 50)
    /\ dataTheme = "dark"
    /\ navbarBg = "rgba(17, 24, 39, 0.95)"

\* C13: every toggleTheme sets the rotated transform; whenever no revert timer
\* is pending the transform is empty; and, pending timers firing eventually,
\* a rotated transform is eventually reset to empty.
C13_AffordanceReverts ==
    /\ [][lastEvent'.type = "toggle" => transform' = "rotate(360deg)"]_vars
    /\ [](timers = 0 => transform = "")
    /\ (transform = "rotate(360deg)") ~> (transform = "")

\* two toggles, one stale timer has fired and the last one too
C13_Witness ==
    /\ Len(before) = 2
    /\ lastEvent.type = "timer"
    /\ timers = 0
    /\ transform = ""

\* C14: every submit calls preventDefault; a submit with name, email and
\* message all non-empty shows exactly the success message, resets the form
\* and issues no network request.
C14_ValidSubmitAccepted ==
    [][lastEvent'.type = "submit" =>
        /\ defaultPrevented'
        /\ (formName # "" /\ formEmail # "" /\ formMessage # "") =>
            /\ alerts' = <<"Thank you for your message! I'll get back to you soon.">>
            /\ resets'
            /\ <<formName', formEmail', formMessage'>> = <<"", "", "">>
            /\ requests' = requests]_vars

\* a valid submit has just been handled
C14_Witness ==
    /\ lastEvent.type = "submit"
    /\ defaultPrevented
    /\ resets
    /\ alerts = <<"Thank you for your message! I'll get back to you soon.">>
    /\ <<formName, formEmail, formMessage>> = <<"", "", "">>

\* C15: once initialized (toggle and icon present), currentTheme, data-theme
\* and the stored value are equal, the stored entry exists, and icon and label
\* show the sun / 'Switch to light mode' exactly when the theme is dark.
C15_ThemeStateConsistent ==
    (loaded /\ hasToggle /\ hasIcon) =>
        /\ currentTheme = dataTheme
        /\ dataTheme = storage
        /\ storage \notin {NULL, ""}
        /\ IF dataTheme = "dark"
           THEN iconClass = "fas fa-sun" /\ ariaLabel = "Switch to light mode"
           ELSE iconClass = "fas fa-moon" /\ ariaLabel = "Switch to dark mode"

\* toggled to dark, then a system notification and a click went by
C15_Witness ==
    /\ loaded
    /\ toggled
    /\ storage = "dark"
    /\ iconClass = "fas fa-sun"
    /\ ~sysDark
    /\ lastEvent.type = "click"

DarkNavbar == {"rgba(17, 24, 39, 0.98)", "rgba(17, 24, 39, 0.95)"}

\* C16 as stated: from the first scroll event on, the navbar background is a
\* dark colour exactly when data-theme is 'dark', also right after a toggle
\* (stated for the states right after a scroll or a toggle of a loaded page).
C16_NavbarFollowsTheme ==
    (loaded /\ navbarBg # "" /\ lastEvent.type \in {"scroll", "toggle"}) =>
        (navbarBg \in DarkNavbar <=> dataTheme = "dark")

====
